---- MODULE Spec2Model ----
(***************************************************************************)
(* A model of eft_parser (src/src/eft_parser/parse_fits.py): the two text  *)
(* dialect parsers (EFTParser, EFT2Parser), the section state machine      *)
(* (ParserState), the per-line classifiers, the renderers (Fit.to_eft,     *)
(* Fit.to_eft2) and the structured form (Fit.to_dict, fit_from_json,       *)
(* fit_from_yaml).                                                         *)
(*                                                                         *)
(* A Python str is a sequence of one-character strings; a line break is    *)
(* the character "\n".  A Python exception is an outcome record            *)
(* [raised |-> TRUE, type |-> ..., msg |-> ...].                           *)
(***************************************************************************)
EXTENDS Integers, Sequences, FiniteSets, TLC

VARIABLES
    dialect,    \* "A": EFTParser.parse, "B": EFT2Parser.parse, "-": no parse
    text,       \* the argument of parse
    pc,         \* "start" | "items" | "done" | "error" | "unit"
    err,        \* the exception that ended the parse (NoError while none)
    fit,        \* the Fit under construction (NoFit before the header)
    state,      \* the ParserState of the parse
    rest,       \* the lines of lines[1:] the for loop has not reached yet
    log,        \* history: one entry per line the loop body completed
    cl_line,    \* the argument of a classifier called on its own
    cl_res      \* the classifier's outcome (NoCall before the call)

vars == <<dialect, text, pc, err, fit, state, rest, log, cl_line, cl_res>>

-----------------------------------------------------------------------------
(* Bounds of the model.                                                    *)

\* longest line handed to a classifier on its own
MaxLen == 6
\* most item lines in a free-form document
MaxItems == 3
\* longest run of item lines in one section of a laid-out document
MaxRun == 2

-----------------------------------------------------------------------------
(* Python str operations, on sequences of characters.                      *)

\* the characters str.strip() removes (those of the model's alphabet)
Whitespace == {" ", "\n", "\t"}

Digits == {"0", "1", "2", "3", "4", "5", "6", "7", "8", "9"}

SetMin(S) == CHOOSE x \in S : \A y \in S : x <= y

SetMax(S) == CHOOSE x \in S : \A y \in S : x >= y

\* s.strip(chars): drop the characters of chars from both ends
StripChars(s, chars) ==
    LET keep == {i \in 1..Len(s) : s[i] \notin chars}
    IN  IF keep = {} THEN <<>> ELSE SubSeq(s, SetMin(keep), SetMax(keep))

\* s.strip()
Strip(s) == StripChars(s, Whitespace)

\* sub occurs in s at index i
OccursAt(s, sub, i) ==
    /\ i >= 1
    /\ i + Len(sub) - 1 <= Len(s)
    /\ SubSeq(s, i, i + Len(sub) - 1) = sub

\* the indices where sub occurs in s
Occurrences(s, sub) == {i \in 1..Len(s) : OccursAt(s, sub, i)}

\* sub in s
Contains(s, sub) == Occurrences(s, sub) # {}

\* s.startswith(prefix)
StartsWith(s, prefix) == OccursAt(s, prefix, 1)

\* s.split(sep, 1): at the first occurrence of sep, or the whole of s
SplitFirst(s, sep) ==
    IF ~Contains(s, sep) THEN <<s>>
    ELSE LET i == SetMin(Occurrences(s, sep))
         IN  <<SubSeq(s, 1, i - 1), SubSeq(s, i + Len(sep), Len(s))>>

\* s.rsplit(sep, 1): at the last occurrence of sep, or the whole of s
SplitLast(s, sep) ==
    IF ~Contains(s, sep) THEN <<s>>
    ELSE LET i == SetMax(Occurrences(s, sep))
         IN  <<SubSeq(s, 1, i - 1), SubSeq(s, i + Len(sep), Len(s))>>

\* s.splitlines(): the pieces between line breaks, no empty last piece
RECURSIVE SplitLines(_)
SplitLines(s) ==
    IF s = <<>> THEN <<>>
    ELSE IF ~Contains(s, <<"\n">>) THEN <<s>>
    ELSE LET i == SetMin(Occurrences(s, <<"\n">>))
         IN  <<SubSeq(s, 1, i - 1)>> \o SplitLines(SubSeq(s, i + 1, Len(s)))

DigitValue(c) ==
    CASE c = "0" -> 0 [] c = "1" -> 1 [] c = "2" -> 2 [] c = "3" -> 3
      [] c = "4" -> 4 [] c = "5" -> 5 [] c = "6" -> 6 [] c = "7" -> 7
      [] c = "8" -> 8 [] c = "9" -> 9

RECURSIVE DecimalValue(_)
DecimalValue(ds) ==
    IF ds = <<>> THEN 0
    ELSE 10 * DecimalValue(SubSeq(ds, 1, Len(ds) - 1)) + DigitValue(ds[Len(ds)])

Returned(v) == [raised |-> FALSE, value |-> v]

Raised(t, m) == [raised |-> TRUE, type |-> t, msg |-> m]

\* int(s) once s is stripped and its sign taken off: digits only
IntOfDigits(negative, ds) ==
    IF ds # <<>> /\ \A i \in 1..Len(ds) : ds[i] \in Digits
    THEN Returned(IF negative THEN 0 - DecimalValue(ds) ELSE DecimalValue(ds))
    ELSE Raised("ValueError", "invalid literal for int()")

IntOfStripped(t) ==
    IF t # <<>> /\ t[1] \in {"+", "-"}
    THEN IntOfDigits(t[1] = "-", Tail(t))
    ELSE IntOfDigits(FALSE, t)

\* int(s): surrounding whitespace dropped, an optional sign, then digits only
PyInt(s) == IntOfStripped(Strip(s))

DigitChar(d) ==
    CASE d = 0 -> "0" [] d = 1 -> "1" [] d = 2 -> "2" [] d = 3 -> "3"
      [] d = 4 -> "4" [] d = 5 -> "5" [] d = 6 -> "6" [] d = 7 -> "7"
      [] d = 8 -> "8" [] d = 9 -> "9"

RECURSIVE NatStr(_)
NatStr(n) ==
    IF n < 10 THEN <<DigitChar(n)>> ELSE NatStr(n \div 10) \o <<DigitChar(n % 10)>>

\* str(n) of an int
IntStr(n) == IF n < 0 THEN <<"-">> \o NatStr(0 - n) ELSE NatStr(n)

\* None; str(None) is the four characters of NoneStr
PyNone == <<"NoneType">>

NoneStr == <<"N", "o", "n", "e">>

\* f"{v}" of a str or of None
FormatStr(v) == IF v = PyNone THEN NoneStr ELSE v

-----------------------------------------------------------------------------
(* The record types.                                                       *)

Module(name, charge) == [kind |-> "Module", name |-> name, charge |-> charge]

Rig(name) == [kind |-> "Rig", name |-> name]

Subsystem(name) == [kind |-> "Subsystem", name |-> name]

Drone(name, quantity) == [kind |-> "Drone", name |-> name, quantity |-> quantity]

Cargo(name, quantity) == [kind |-> "Cargo", name |-> name, quantity |-> quantity]

-----------------------------------------------------------------------------
(* The line classifiers.  Each returns Returned(record) or Raised(...).    *)

\* the quantity delimiter of format A and of format B
DelimA == <<" ", "x">>

DelimB == <<" ", ",">>

Comma == <<",">>

\* Module(name=name.strip(), charge=charge.strip()) of the two parts
\* map(str.strip, ...) gives
ModuleOfParts(parts) ==
    Returned(Module(Strip(Strip(parts[1])), Strip(Strip(parts[2]))))

\* the module classifier with the split taken at the last comma
ParseModuleAtLastComma(line) ==
    IF Contains(line, Comma)
    THEN ModuleOfParts(SplitLast(line, Comma))
    ELSE Returned(Module(Strip(line), PyNone))

\* EFTParser._parse_module, EFT2Parser._parse_module
ParseModule(line) ==
    IF Contains(line, Comma)
    THEN ModuleOfParts(SplitFirst(line, Comma))
    ELSE Returned(Module(Strip(line), PyNone))

\* EFTParser._parse_rig, EFT2Parser._parse_rig
ParseRig(line) == Returned(Rig(Strip(line)))

\* EFTParser._parse_subsystem, EFT2Parser._parse_subsystem
ParseSubsystem(line) == Returned(Subsystem(Strip(line)))

\* the record with a quantity of 1 put for a count that is no integer
WithQuantityOrOne(kind, name, qty) ==
    Returned([kind |-> kind, name |-> name,
              quantity |-> IF qty.raised THEN 1 ELSE qty.value])

\* Drone / Cargo (name=name.strip(), quantity=int(qty.strip()))
WithQuantity(kind, name, qty) ==
    IF qty.raised THEN qty
    ELSE Returned([kind |-> kind, name |-> name, quantity |-> qty.value])

QuantityOfParts(kind, parts) ==
    WithQuantity(kind, Strip(parts[1]), PyInt(Strip(parts[2])))

\* the quantity classifier with the split taken at the first delimiter
ParseQuantityAtFirst(line, delim, kind) ==
    IF Contains(line, delim)
    THEN QuantityOfParts(kind, SplitFirst(line, delim))
    ELSE Returned([kind |-> kind, name |-> Strip(line), quantity |-> 1])

\* the body shared by _parse_drone and _parse_cargo of both parsers
ParseQuantity(line, delim, kind) ==
    IF Contains(line, delim)
    THEN QuantityOfParts(kind, SplitLast(line, delim))
    ELSE Returned([kind |-> kind, name |-> Strip(line), quantity |-> 1])

\* EFTParser._parse_drone
ParseDroneA(line) == ParseQuantity(line, DelimA, "Drone")

\* EFTParser._parse_cargo
ParseCargoA(line) == ParseQuantity(line, DelimA, "Cargo")

\* EFT2Parser._parse_drone
ParseDroneB(line) == ParseQuantity(line, DelimB, "Drone")

\* EFT2Parser._parse_cargo
ParseCargoB(line) == ParseQuantity(line, DelimB, "Cargo")

-----------------------------------------------------------------------------
(* The Classification Lookup.                                              *)

\* the category codes EFTParser.parse compares against
StructureCode == 65

ChargeCode == 8

SubsystemCode == 32

DroneCode == 18

\* the rows of table typeInfo in data/sde_lite.sqlite that the names of the
\* model's documents select: a ship, a structure, a drone, a subsystem,
\* a charge and a module.  Every other name has no row.
typeInfo ==
    { [typeName |-> <<"V">>, categoryID |-> 6],
      [typeName |-> <<"K">>, categoryID |-> StructureCode],
      [typeName |-> <<"D">>, categoryID |-> DroneCode],
      [typeName |-> <<"T">>, categoryID |-> SubsystemCode],
      [typeName |-> <<"C">>, categoryID |-> ChargeCode],
      [typeName |-> <<"M">>, categoryID |-> 7] }

\* the rows SELECT categoryID FROM typeInfo WHERE typeName = name gives
RowsNamed(name) == {r \in typeInfo : r.typeName = name}

\* cursor.fetchone()[0]: None[0] raises TypeError when no row matches
FirstCategory(rows) ==
    IF rows = {}
    THEN Raised("TypeError", "'NoneType' object is not subscriptable")
    ELSE Returned((CHOOSE r \in rows : TRUE).categoryID)

\* get_category_info
GetCategoryInfo(name) == FirstCategory(RowsNamed(name))

-----------------------------------------------------------------------------
(* ParserState.                                                            *)

\* the value of an attribute that was never assigned
NoAttr == <<"no attribute">>

\* ParserState.__init__: heading is not assigned
NewParserState ==
    [section |-> 0, in_blank_block |-> FALSE, blank_block_count |-> 0,
     heading |-> NoAttr]

Missile == <<"M", "i", "s", "s", "i", "l", "e">>

Torpedo == <<"T", "o", "r", "p", "e", "d", "o">>

Bomb == <<"B", "o", "m", "b">>

Charge == <<"C", "h", "a", "r", "g", "e">>

Ammo == <<"A", "m", "m", "o">>

Fuel == <<"F", "u", "e", "l">>

Script == <<"S", "c", "r", "i", "p", "t">>

\* the keyword list tested in section 1 and the one tested in section 5
MidKeywords == {Missile, Torpedo, Bomb, Charge, Ammo}

DroneKeywords == {Missile, Torpedo, Bomb, Charge, Ammo, Fuel, Script}

\* the test for a cargo-like line with the " x" part left out
LooksLikeCargoByKeyword(line, words) == \E w \in words : Contains(line, w)

LooksLikeCargo(line, words) ==
    Contains(line, DelimA) /\ \E w \in words : Contains(line, w)

\* blank_block_count += 1
CountBlank(st) == [st EXCEPT !.blank_block_count = @ + 1]

\* the slot rule with every empty line moving to the next section
SlotRuleEveryBlank(st) ==
    IF st.section < 3 /\ st.blank_block_count > 0
    THEN [st EXCEPT !.section = @ + 1, !.blank_block_count = 0]
    ELSE st

\* if self.section < 3 and self.blank_block_count > 1
SlotRule(st) ==
    IF st.section < 3 /\ st.blank_block_count > 1
    THEN [st EXCEPT !.section = @ + 1, !.blank_block_count = 0]
    ELSE st

\* if self.section == 4 and self.blank_block_count > 2
FourthRule(st) ==
    IF st.section = 4 /\ st.blank_block_count > 2
    THEN [st EXCEPT !.section = @ + 1, !.blank_block_count = 0]
    ELSE st

\* process_line, the branch of an empty line
OnBlank(st) ==
    [FourthRule(SlotRule(CountBlank(st))) EXCEPT !.in_blank_block = TRUE]

\* the leave of a blank block that moves one section for every empty line
\* counted
LeaveBlankBlockByCount(st) ==
    IF st.in_blank_block
    THEN [st EXCEPT !.section = @ + st.blank_block_count,
                    !.in_blank_block = FALSE, !.blank_block_count = 0]
    ELSE st

\* if self.in_blank_block: the first non-empty line after empty ones
LeaveBlankBlock(st) ==
    IF st.in_blank_block
    THEN [st EXCEPT !.section = @ + 1, !.in_blank_block = FALSE,
                    !.blank_block_count = 0]
    ELSE st

\* the skip to cargo taken in whatever section the line is met
SkipToCargoAnywhere(st, line) ==
    IF LooksLikeCargo(line, DroneKeywords)
    THEN [st EXCEPT !.section = 6]
    ELSE st

\* the two special cases that skip ahead to cargo
SkipToCargo(st, line) ==
    IF st.section = 1 /\ LooksLikeCargo(line, MidKeywords)
    THEN [st EXCEPT !.section = 6]
    ELSE IF st.section = 5 /\ LooksLikeCargo(line, DroneKeywords)
    THEN [st EXCEPT !.section = 6]
    ELSE st

\* process_line, the branch of a non-empty line
OnItem(st, line) == SkipToCargo(LeaveBlankBlock(st), line)

ProcessStripped(st, line) ==
    [state |-> IF line = <<>> THEN OnBlank(st) ELSE OnItem(st, line),
     item  |-> line]

\* ParserState.process_line: the new state and the returned (stripped) line
ProcessLine(st, raw) == ProcessStripped(st, Strip(raw))

ProcessStripped2(st, line) ==
    IF line = <<>> THEN Returned([state |-> st, item |-> PyNone])
    ELSE IF StartsWith(line, <<"#", "#", " ">>)
    THEN Returned([state |-> [st EXCEPT !.heading =
                                 StripChars(line, {"#", " "})],
                   item  |-> PyNone])
    ELSE IF st.heading = NoAttr
    THEN Raised("AttributeError",
                "'ParserState' object has no attribute 'heading'")
    ELSE IF st.heading # <<>>
    THEN Returned([state |-> st, item |-> line])
    ELSE Returned([state |-> st, item |-> PyNone])

\* ParserState.process_line2: the new state and the returned line (PyNone
\* for None), or AttributeError when heading is read before any heading line
ProcessLine2(st, raw) == ProcessStripped2(st, Strip(raw))

-----------------------------------------------------------------------------
(* Fit and the two dialect parsers.                                        *)

\* Fit(ship=ship, name=name): the sequences empty, is_structure False
NewFit(ship, name) ==
    [ship |-> ship, name |-> name,
     low_slots |-> <<>>, mid_slots |-> <<>>, high_slots |-> <<>>,
     rigs |-> <<>>, subsystems |-> <<>>, service_slots |-> <<>>,
     drones |-> <<>>, fighters |-> <<>>, cargo |-> <<>>,
     is_structure |-> FALSE]

\* the sequences of a Fit
SeqFields ==
    {"low_slots", "mid_slots", "high_slots", "rigs", "subsystems",
     "service_slots", "drones", "fighters", "cargo"}

\* the outcome of a step: the Fit and the ParserState it leaves
Progress(f, st) == [raised |-> FALSE, fit |-> f, state |-> st]

\* the append with the new record put first
Prepend1(f, field, rec) == [f EXCEPT ![field] = <<rec>> \o @]

\* list.append on one sequence of the Fit
Append1(f, field, rec) == [f EXCEPT ![field] = Append(@, rec)]

\* if ship_category == 65: fit.is_structure = True
Classified(f, cat) ==
    IF cat.raised THEN cat
    ELSE Returned([f EXCEPT !.is_structure = (cat.value = StructureCode)])

\* ship, fit_name = map(str.strip, ship_line.split(",", 1)), the Fit, and
\* the lookup of the hull
FitOfHeaderA(parts) ==
    IF Len(parts) # 2
    THEN Raised("ValueError", "not enough values to unpack")
    ELSE Classified(NewFit(Strip(parts[1]), Strip(parts[2])),
                    GetCategoryInfo(Strip(parts[1])))

\* the header step with the check of the leading "[" left out
HeaderLinesAUnchecked(lines) ==
    IF lines = <<>>
    THEN Raised("ValueError", "Invalid EFT format")
    ELSE FitOfHeaderA(SplitFirst(StripChars(lines[1], {"[", "]"}), Comma))

\* EFTParser.parse on lines = text.strip().splitlines(), up to the
\* construction of ParserState
HeaderLinesA(lines) ==
    IF lines = <<>> \/ ~StartsWith(lines[1], <<"[">>)
    THEN Raised("ValueError", "Invalid EFT format")
    ELSE FitOfHeaderA(SplitFirst(StripChars(lines[1], {"[", "]"}), Comma))

\* the Fit of the header with is_structure resolved, or the exception
HeaderA(txt) == HeaderLinesA(SplitLines(Strip(txt)))

\* ship, fit_name = lines[0].strip("# ").split(",", 1), and the Fit
FitOfHeaderB(parts) ==
    IF Len(parts) # 2
    THEN Raised("ValueError", "not enough values to unpack")
    ELSE Returned(NewFit(parts[1], parts[2]))

\* EFT2Parser.parse on lines = text.strip().splitlines(), up to the
\* construction of ParserState
HeaderLinesB(lines) ==
    IF lines = <<>> \/ ~StartsWith(lines[1], <<"#">>)
    THEN Raised("ValueError", "Invalid EFT2.0 format")
    ELSE FitOfHeaderB(SplitFirst(StripChars(lines[1], {"#", " "}), Comma))

HeaderB(txt) == HeaderLinesB(SplitLines(Strip(txt)))

\* lines[1:] of the text
ItemLines(txt) == Tail(SplitLines(Strip(txt)))

\* append the classifier's record to one sequence, or pass its exception on
AppendParsed(f, field, parsed) ==
    IF parsed.raised THEN parsed ELSE Returned(Append1(f, field, parsed.value))

\* the routing by category with the drone code sent on to cargo
ByCategoryDronesToCargo(f, rec, code) ==
    IF code = SubsystemCode THEN Append1(f, "subsystems", rec)
    ELSE Append1(f, "cargo", rec)

\* if item_category == 32: subsystems, else 18: drones, else cargo
ByCategory(f, rec, code) ==
    IF code = SubsystemCode THEN Append1(f, "subsystems", rec)
    ELSE IF code = DroneCode THEN Append1(f, "drones", rec)
    ELSE Append1(f, "cargo", rec)

\* if fit.is_structure: fit.service_slots.append(item)
ToService(f, rec) ==
    IF f.is_structure THEN Append1(f, "service_slots", rec) ELSE f

\* if item_category == 8: fit.cargo.append(item), on the " x" path only
ChargeToCargo(f, quantified, rec, code) ==
    IF quantified /\ code = ChargeCode THEN Append1(f, "cargo", rec) ELSE f

\* the appends of section 4 with the one to service_slots left out
RouteAmbiguousNoService(f, quantified, rec, cat) ==
    IF cat.raised THEN cat
    ELSE Returned(ByCategory(ChargeToCargo(f, quantified, rec, cat.value),
                             rec, cat.value))

\* the appends of section 4 with the flag taken again from the item's category
RouteAmbiguousReflag(f, quantified, rec, cat) ==
    IF cat.raised THEN cat
    ELSE Returned([ByCategory(
                     ToService(ChargeToCargo(f, quantified, rec, cat.value), rec),
                     rec, cat.value)
                   EXCEPT !.is_structure = (cat.value = StructureCode)])

\* the appends of section 4, once the item is parsed and looked up
RouteAmbiguous(f, quantified, rec, cat) ==
    IF cat.raised THEN cat
    ELSE Returned(ByCategory(
                    ToService(ChargeToCargo(f, quantified, rec, cat.value), rec),
                    rec, cat.value))

LookedUp(f, quantified, parsed) ==
    IF parsed.raised THEN parsed
    ELSE RouteAmbiguous(f, quantified, parsed.value,
                        GetCategoryInfo(parsed.value.name))

\* the body of EFTParser.parse's loop in section 4, for a non-empty item
Ambiguous(f, item) ==
    IF Contains(item, DelimA)
    THEN LookedUp(f, TRUE, ParseCargoA(item))
    ELSE LookedUp(f, FALSE, ParseModule(item))

\* the section-5 branch that appends to drones whatever drones holds
DronesSectionAlwaysDrone(f, item) ==
    AppendParsed(f, "drones", ParseDroneA(item))

\* the section-5 branch that appends to cargo whatever drones holds
DronesSectionAlwaysCargo(f, item) ==
    AppendParsed(f, "cargo", ParseCargoA(item))

\* the body of EFTParser.parse's loop in section 5, for a non-empty item
DronesSection(f, item) ==
    IF f.drones # <<>>
    THEN AppendParsed(f, "cargo", ParseCargoA(item))
    ELSE AppendParsed(f, "drones", ParseDroneA(item))

\* the branches of EFTParser.parse's loop body, by section
Route(f, section, item) ==
    IF item = <<>> THEN Returned(f)
    ELSE CASE section = 0 -> AppendParsed(f, "low_slots", ParseModule(item))
           [] section = 1 -> AppendParsed(f, "mid_slots", ParseModule(item))
           [] section = 2 -> AppendParsed(f, "high_slots", ParseModule(item))
           [] section = 3 -> AppendParsed(f, "rigs", ParseRig(item))
           [] section = 4 -> Ambiguous(f, item)
           [] section = 5 -> DronesSection(f, item)
           [] section = 6 -> AppendParsed(f, "cargo", ParseCargoA(item))
           [] section = 7 -> AppendParsed(f, "fighters", ParseDroneA(item))
           [] OTHER -> Returned(f)

\* the step's outcome: the routed Fit with the ParserState, or the exception
Routed(r, st) == IF r.raised THEN r ELSE Progress(r.value, st)

StepProcessedA(f, p) == Routed(Route(f, p.state.section, p.item), p.state)

\* one iteration of EFTParser.parse's loop
StepA(f, st, raw) == StepProcessedA(f, ProcessLine(st, raw))

\* the branches of EFT2Parser.parse's loop body, by heading
RouteB(f, heading, item) ==
    CASE heading = <<"L", "o", "w", " ", "S", "l", "o", "t", "s">> ->
             AppendParsed(f, "low_slots", ParseModule(item))
      [] heading = <<"M", "i", "d", " ", "S", "l", "o", "t", "s">> ->
             AppendParsed(f, "mid_slots", ParseModule(item))
      [] heading = <<"H", "i", "g", "h", " ", "S", "l", "o", "t", "s">> ->
             AppendParsed(f, "high_slots", ParseModule(item))
      [] heading = <<"R", "i", "g", "s">> ->
             AppendParsed(f, "rigs", ParseRig(item))
      [] heading = <<"S", "u", "b", "s", "y", "s", "t", "e", "m", "s">> ->
             AppendParsed(f, "subsystems", ParseSubsystem(item))
      [] heading = <<"D", "r", "o", "n", "e", "s">> ->
             AppendParsed(f, "drones", ParseDroneB(item))
      [] heading = <<"C", "a", "r", "g", "o">> ->
             AppendParsed(f, "cargo", ParseCargoB(item))
      [] OTHER -> Returned(f)

\* if not fit_item: continue; else the branch of the heading
StepProcessedB(f, p) ==
    IF p.raised THEN p
    ELSE IF p.value.item = PyNone
    THEN Progress(f, p.value.state)
    ELSE Routed(RouteB(f, p.value.state.heading, p.value.item), p.value.state)

\* one iteration of EFT2Parser.parse's loop
StepB(f, st, raw) == StepProcessedB(f, ProcessLine2(st, raw))

\* the loop of a parse over the lines left, from Fit f and ParserState st
RECURSIVE RunLines(_, _, _, _)
RunOn(d, r, lines) ==
    IF r.raised THEN r ELSE RunLines(d, r.fit, r.state, lines)

RunLines(d, f, st, lines) ==
    IF lines = <<>> THEN Returned(f)
    ELSE RunOn(d, IF d = "A" THEN StepA(f, st, Head(lines))
                  ELSE StepB(f, st, Head(lines)),
               Tail(lines))

RunFrom(d, h, lines) ==
    IF h.raised THEN h ELSE RunLines(d, h.value, NewParserState, lines)

\* EFTParser.parse (fit_from_eft), as a function of the text
ParseA(txt) == RunFrom("A", HeaderA(txt), ItemLines(txt))

\* EFT2Parser.parse (fit_from_eft2), as a function of the text
ParseB(txt) == RunFrom("B", HeaderB(txt), ItemLines(txt))

-----------------------------------------------------------------------------
(* The renderers and the structured form.                                  *)

NewLine == <<"\n">>

\* the lines f"{m.name},{m.charge}\n" of a sequence of modules
RECURSIVE RenderModules(_)
RenderModules(ms) ==
    IF ms = <<>> THEN <<>>
    ELSE Head(ms).name \o Comma \o FormatStr(Head(ms).charge) \o NewLine
         \o RenderModules(Tail(ms))

\* the lines f"{r.name}\n" of a sequence of records
RECURSIVE RenderNames(_)
RenderNames(rs) ==
    IF rs = <<>> THEN <<>>
    ELSE Head(rs).name \o NewLine \o RenderNames(Tail(rs))

\* the lines f"{d.name}{delim}{d.quantity}\n" of a sequence of records
RECURSIVE RenderQuantities(_, _)
RenderQuantities(ds, delim) ==
    IF ds = <<>> THEN <<>>
    ELSE Head(ds).name \o delim \o IntStr(Head(ds).quantity) \o NewLine
         \o RenderQuantities(Tail(ds), delim)

\* every record of the sequence has the attribute
AllHave(rs, attr) == \A i \in 1..Len(rs) : attr \in DOMAIN rs[i]

NoAttribute(attr) == Raised("AttributeError", attr)

\* Fit.to_eft: the text, or AttributeError when a record read for its charge
\* or quantity has none
ToEft(f) ==
    IF ~(AllHave(f.low_slots, "charge") /\ AllHave(f.mid_slots, "charge")
         /\ AllHave(f.high_slots, "charge"))
    THEN NoAttribute("charge")
    ELSE IF ~(AllHave(f.drones, "quantity") /\ AllHave(f.cargo, "quantity")
              /\ AllHave(f.fighters, "quantity"))
    THEN NoAttribute("quantity")
    ELSE Returned(
           <<"[">> \o f.ship \o Comma \o f.name \o <<"]">> \o NewLine
           \o RenderModules(f.low_slots) \o NewLine
           \o RenderModules(f.mid_slots) \o NewLine
           \o RenderModules(f.high_slots) \o NewLine
           \o RenderNames(f.rigs) \o NewLine
           \o (IF f.is_structure THEN RenderNames(f.service_slots)
               ELSE RenderNames(f.subsystems)) \o NewLine
           \o RenderQuantities(f.drones, DelimA) \o NewLine
           \o RenderQuantities(f.cargo, DelimA) \o NewLine
           \o RenderQuantities(f.fighters, DelimA))

\* Fit.to_eft2: the text, or AttributeError as for to_eft
ToEft2(f) ==
    IF ~(AllHave(f.low_slots, "charge") /\ AllHave(f.mid_slots, "charge")
         /\ AllHave(f.high_slots, "charge"))
    THEN NoAttribute("charge")
    ELSE IF ~(AllHave(f.drones, "quantity") /\ AllHave(f.cargo, "quantity"))
    THEN NoAttribute("quantity")
    ELSE Returned(
           <<"#", " ">> \o f.ship \o <<",", " ">> \o f.name \o NewLine
           \o <<"#", "#", " ", "L", "o", "w", " ", "S", "l", "o", "t", "s">>
           \o NewLine \o RenderModules(f.low_slots) \o NewLine
           \o <<"#", "#", " ", "M", "i", "d", " ", "S", "l", "o", "t", "s">>
           \o NewLine \o RenderModules(f.mid_slots) \o NewLine
           \o <<"#", "#", " ", "H", "i", "g", "h", " ", "S", "l", "o", "t", "s">>
           \o NewLine \o RenderModules(f.high_slots) \o NewLine
           \o <<"#", "#", " ", "R", "i", "g", "s">>
           \o NewLine \o RenderNames(f.rigs) \o NewLine
           \o (IF f.is_structure
               THEN <<"#", "#", " ", "S", "e", "r", "v", "i", "c", "e", " ",
                      "S", "l", "o", "t", "s">>
                    \o NewLine \o RenderNames(f.service_slots)
               ELSE <<"#", "#", " ", "S", "u", "b", "s", "y", "s", "t", "e",
                      "m", "s">>
                    \o NewLine \o RenderNames(f.subsystems)) \o NewLine
           \o <<"#", "#", " ", "D", "r", "o", "n", "e", "s">>
           \o NewLine \o RenderQuantities(f.drones, DelimB) \o NewLine
           \o <<"#", "#", " ", "C", "a", "r", "g", "o">>
           \o NewLine \o RenderQuantities(f.cargo, DelimB))

\* to_dict of Module, Rig, Subsystem, Drone, Cargo: the record's fields
RecordToDict(rec) == [k \in (DOMAIN rec) \ {"kind"} |-> rec[k]]

DictsOf(rs) == [i \in 1..Len(rs) |-> RecordToDict(rs[i])]

\* Fit.to_dict
ToDict(f) ==
    [ship |-> f.ship, name |-> f.name,
     low_slots |-> DictsOf(f.low_slots), mid_slots |-> DictsOf(f.mid_slots),
     high_slots |-> DictsOf(f.high_slots), rigs |-> DictsOf(f.rigs),
     subsystems |-> DictsOf(f.subsystems),
     service_slots |-> DictsOf(f.service_slots),
     drones |-> DictsOf(f.drones), fighters |-> DictsOf(f.fighters),
     cargo |-> DictsOf(f.cargo), is_structure |-> f.is_structure]

\* Fit.to_json and Fit.to_yaml: the document json.dumps / yaml.dump writes
\* for the dictionary.  The two codecs are the libraries', and each reads
\* back the dictionary of str, int, None, bool and lists it wrote.
ToJson(f) == [format |-> "json", document |-> ToDict(f)]

ToYaml(f) == [format |-> "yaml", document |-> ToDict(f)]

\* json.loads / yaml.load of such a document
Loads(data) == data.document

AllKeys(ds, key) == \A i \in 1..Len(ds) : key \in DOMAIN ds[i]

KeyError(key) == Raised("KeyError", key)

\* the body shared by fit_from_yaml and fit_from_json, after the load
FitFromDict(d) ==
    IF ~(AllKeys(d.low_slots, "charge") /\ AllKeys(d.mid_slots, "charge")
         /\ AllKeys(d.high_slots, "charge"))
    THEN KeyError("charge")
    ELSE IF ~AllKeys(d.subsystems, "charge") THEN KeyError("charge")
    ELSE IF ~(AllKeys(d.drones, "quantity") /\ AllKeys(d.cargo, "quantity"))
    THEN KeyError("quantity")
    ELSE Returned(
           [NewFit(d.ship, d.name) EXCEPT
              !.low_slots  = [i \in 1..Len(d.low_slots) |->
                                Module(d.low_slots[i].name, d.low_slots[i].charge)],
              !.mid_slots  = [i \in 1..Len(d.mid_slots) |->
                                Module(d.mid_slots[i].name, d.mid_slots[i].charge)],
              !.high_slots = [i \in 1..Len(d.high_slots) |->
                                Module(d.high_slots[i].name, d.high_slots[i].charge)],
              !.rigs       = [i \in 1..Len(d.rigs) |-> Rig(d.rigs[i].name)],
              !.subsystems = [i \in 1..Len(d.subsystems) |->
                                Module(d.subsystems[i].name, d.subsystems[i].charge)],
              !.drones     = [i \in 1..Len(d.drones) |->
                                Drone(d.drones[i].name, d.drones[i].quantity)],
              !.cargo      = [i \in 1..Len(d.cargo) |->
                                Cargo(d.cargo[i].name, d.cargo[i].quantity)]])

\* fit_from_json of a str
FitFromJson(data) == FitFromDict(Loads(data))

\* fit_from_yaml of a str
FitFromYaml(data) == FitFromDict(Loads(data))

-----------------------------------------------------------------------------
(* The documents the parsers are run on.                                   *)

\* "\n".join(lines) + "\n"
RECURSIVE JoinLines(_)
JoinLines(lines) ==
    IF lines = <<>> THEN <<>>
    ELSE Head(lines) \o NewLine \o JoinLines(Tail(lines))

\* n empty lines
Blanks(n) == [i \in 1..n |-> <<>>]

\* item lines of format A: a module with and without a charge, a subsystem,
\* a drone and a charge with a quantity, a name with no row in typeInfo,
\* a quantity of 0, and ammunition with a quantity
LineModCharge == <<"M", ",", "c">>

LineMod == <<"M">>

LineSub == <<"T">>

LineDrone == <<"D", " ", "x", "5">>

LineCharge == <<"C", " ", "x", "0">>

LineUnknown == <<"Q">>

LineAmmo == Ammo \o <<" ", "x", "2">>

LinePaste == <<"P", " ", "x", "1", "0">>

\* headers of format A: a ship, a structure, a hull with no row in
\* typeInfo, no leading "[", no comma
HeaderShip == <<"[", "V", ",", " ", "f", "]">>

HeaderStructure == <<"[", "K", ",", "f", "]">>

HeaderUnknownHull == <<"[", "U", ",", " ", "f", "]">>

HeaderNoMarker == <<"V", ",", " ", "f">>

HeaderNoComma == <<"[", "V", " ", "f", "]">>

\* headers of format B
HeaderB2 == <<"#", " ", "V", ",", " ", "f">>

HeaderB2NoMarker == <<"V", ",", "f">>

HeaderB2NoComma == <<"#", " ", "V", " ", "f">>

LineRig == <<"R">>

LineDrone12 == <<"D", " ", "x", "1", "2">>

LineNanite == <<"N", " ", "x", "3">>

\* a quantity line whose count is no integer, in either format
LineBadCount == <<"D", " ", "x", "z">>

LineBadCountB == <<"D", " ", ",", "z">>

\* a format-B header that names a structure
HeaderB2Structure == <<"#", " ", "K", ",", "f">>

\* longest run of empty lines between two item lines of a free-form body
MaxBlankRun == 3

\* the item lines of a free-form body from the first section on, and of one
\* that starts in the fifth section
FreePool == {LineMod, LineSub, LineDrone}

DeepPool == {LineMod, LineSub, LineDrone, LineCharge}

Segments(pool) == (0..MaxBlankRun) \X pool

RECURSIVE BodyLines(_)
BodyLines(segs) ==
    IF segs = <<>> THEN <<>>
    ELSE Blanks(Head(segs)[1]) \o <<Head(segs)[2]>> \o BodyLines(Tail(segs))

\* a free-form body: up to n item lines of the pool, each after a run of
\* 0..MaxBlankRun empty lines
FreeBodies(pool, n) ==
    {BodyLines(segs) : segs \in UNION {[1..k -> Segments(pool)] : k \in 0..n}}

\* the non-empty runs of up to MaxRun lines of the pool
Runs(pool) == UNION {[1..k -> pool] : k \in 1..MaxRun}

\* the layout of the tests' documents up to the fifth section: low-slot
\* lines, three empty lines, high-slot lines, one empty line, rig lines,
\* three empty lines
LaidOut(low, high, rigs) ==
    low \o Blanks(3) \o high \o Blanks(1) \o rigs \o Blanks(3)

\* what follows the drone line of a laid-out document: nothing, or one empty
\* line and cargo lines
CargoTails ==
    {<<>>} \cup {<<<<>>>> \o run : run \in Runs({LinePaste, LineNanite})}

\* the documents of test_parse_simple_eft and test_parse_cargo, with runs of
\* 1..MaxRun lines
LaidOutBodies ==
    {LaidOut(low, high, rigs) \o <<drone>> \o tail :
        low \in Runs({LineMod, LineModCharge}), high \in Runs({LineMod}),
        rigs \in Runs({LineRig}), drone \in {LineDrone, LineDrone12},
        tail \in CargoTails}

\* a laid-out start followed by a free-form body, whose first item line is
\* in the fifth section
DeepBodies ==
    {LaidOut(<<LineMod>>, <<LineMod>>, <<LineRig>>) \o b :
        b \in FreeBodies(DeepPool, MaxItems - 1)}

\* what follows the drone line of a document that goes on through the last
\* sections: item lines with a quantity, each after a run of 1 or
\* MaxBlankRun empty lines
TailPool == {LinePaste, LineAmmo}

TailSegments == {1, MaxBlankRun} \X TailPool

TailBodies(n) ==
    {BodyLines(segs) : segs \in UNION {[1..k -> TailSegments] : k \in 0..n}}

\* a laid-out start and a drone line, followed through the last sections
LongBodies ==
    {LaidOut(<<LineMod>>, <<LineMod>>, <<LineRig>>) \o <<LineDrone>> \o t :
        t \in TailBodies(MaxItems + 1)}

\* the same with a line whose count is no integer, and one more line after it
BadCountBodies ==
    {LaidOut(<<LineMod>>, <<LineMod>>, <<LineRig>>) \o head \o t
         \o <<LineBadCount, LinePaste>> :
        head \in {<<>>, <<LineDrone>>}, t \in TailBodies(MaxItems - 1)}
    \cup {<<LineBadCount, LineMod>>}

\* lines with a keyword of the longer list only, and with a keyword and no
\* quantity
LineFuel == Fuel \o <<" ", "x", "2">>

LineAmmoBare == Ammo

\* a keyword line met in section 1, and in section 5 after a drone line
EscapeBodies ==
    {pre \o <<l, LinePaste>> :
        pre \in {<<<<>>>>,
                 LaidOut(<<LineMod>>, <<LineMod>>, <<LineRig>>)
                     \o <<LineDrone, <<>>>>},
        l \in {LineFuel, LineAmmoBare, LineAmmo}}

\* a module line in section 4, one empty line, and two item lines in a row
\* in section 5
DroneRunBodies ==
    {LaidOut(<<LineMod>>, <<LineMod>>, <<LineRig>>) \o <<LineMod, <<>>, a, b>> :
        a \in {LineDrone, LineMod}, b \in {LinePaste, LineMod}}

\* the bodies put after a malformed header or an unknown hull
FewBodies == {<<>>, <<LineMod>>, <<LineModCharge, <<>>, LineMod>>}

DocsA ==
    {JoinLines(<<HeaderShip>> \o b) : b \in FreeBodies(FreePool, MaxItems)}
    \cup {JoinLines(<<h>> \o b) :
              h \in {HeaderShip, HeaderStructure}, b \in DeepBodies}
    \cup {JoinLines(<<h>> \o b) :
              h \in {HeaderShip, HeaderStructure}, b \in LaidOutBodies}
    \cup {JoinLines(<<HeaderShip>> \o Blanks(k) \o <<l>>) :
              k \in 0..2, l \in {LineModCharge, LineAmmo}}
    \cup {JoinLines(<<HeaderShip>>
                    \o LaidOut(<<LineMod>>, <<LineMod>>, <<LineRig>>) \o <<l>>) :
              l \in {LineUnknown, <<"T", " ", "x", "2">>}}
    \cup {JoinLines(<<h>> \o b) :
              h \in {HeaderUnknownHull, HeaderNoMarker, HeaderNoComma},
              b \in FewBodies}
    \cup {JoinLines(<<HeaderShip>> \o b) : b \in LongBodies \cup BadCountBodies}
    \cup {JoinLines(<<HeaderShip>> \o b) : b \in EscapeBodies \cup DroneRunBodies}
    \cup {<<>>, <<" ", "\n">>}

\* lines of format B: headings, items, an empty line
HeadingLow == <<"#", "#", " ", "L", "o", "w", " ", "S", "l", "o", "t", "s">>

HeadingSubsystems ==
    <<"#", "#", " ", "S", "u", "b", "s", "y", "s", "t", "e", "m", "s">>

HeadingDrones == <<"#", "#", " ", "D", "r", "o", "n", "e", "s">>

LineDroneB == <<"D", " ", ",", "5">>

HeadingService ==
    <<"#", "#", " ", "S", "e", "r", "v", "i", "c", "e", " ", "S", "l", "o", "t", "s">>

\* a format-B header with nothing around the ship and the name
HeaderB2Tight == <<"#", " ", "V", ",", "f">>

PoolB ==
    {HeadingLow, HeadingSubsystems, HeadingDrones, LineMod, LineDroneB,
     LineBadCountB, <<>>}

MaxLinesB == 3

DocsB ==
    {JoinLines(<<HeaderB2>> \o b) : b \in UNION {[1..n -> PoolB] : n \in 0..MaxLinesB}}
    \cup {JoinLines(<<h>> \o b) : h \in {HeaderB2NoMarker, HeaderB2NoComma}, b \in FewBodies}
    \cup {JoinLines(<<HeaderB2Structure>> \o b) : b \in {<<>>, <<HeadingLow, LineMod>>}}
    \cup {JoinLines(<<h>> \o b) :
              h \in {HeaderB2Tight, HeaderB2Structure},
              b \in {<<HeadingService, LineMod, <<>>, LineMod>>,
                     <<HeadingDrones, LineDroneB, HeadingLow, LineModCharge>>}}
    \cup {<<>>}

-----------------------------------------------------------------------------
(* The state machine of a parse.                                           *)

NoFit == [none |-> TRUE]

NoError == [raised |-> FALSE]

NoCall == [fn |-> "none"]

\* a parse about to be called on txt
Called(d, txt) ==
    /\ dialect = d
    /\ text = txt
    /\ pc = "start"
    /\ err = NoError
    /\ fit = NoFit
    /\ state = NewParserState
    /\ rest = <<>>
    /\ log = <<>>
    /\ cl_line = <<>>
    /\ cl_res = NoCall

Init ==
    \/ \E txt \in DocsA : Called("A", txt)
    \/ \E txt \in DocsB : Called("B", txt)

\* the exception leaves the parse: nothing is returned
Raise(e) ==
    /\ pc' = "error"
    /\ err' = e
    /\ UNCHANGED <<dialect, text, fit, state, rest, log, cl_line, cl_res>>

\* the header is accepted: the loop starts on lines[1:]
Enter(f) ==
    /\ pc' = "items"
    /\ fit' = f
    /\ state' = NewParserState
    /\ rest' = ItemLines(text)
    /\ UNCHANGED <<dialect, text, err, log, cl_line, cl_res>>

\* one line is done
Advance(r) ==
    /\ fit' = r.fit
    /\ state' = r.state
    /\ log' = Append(log, [line |-> Strip(Head(rest)),
                           section |-> r.state.section,
                           heading |-> r.state.heading])
    /\ rest' = Tail(rest)
    /\ UNCHANGED <<dialect, text, pc, err, cl_line, cl_res>>

Begin(h) == IF h.raised THEN Raise(h) ELSE Enter(h.value)

Continue(r) == IF r.raised THEN Raise(r) ELSE Advance(r)

\* EFTParser.parse, lines 224-237
BeginA ==
    /\ pc = "start" /\ dialect = "A"
    /\ Begin(HeaderA(text))

\* EFTParser.parse, one iteration of the loop
LineA ==
    /\ pc = "items" /\ dialect = "A" /\ rest # <<>>
    /\ Continue(StepA(fit, state, Head(rest)))

\* EFT2Parser.parse, lines 328-337
BeginB ==
    /\ pc = "start" /\ dialect = "B"
    /\ Begin(HeaderB(text))

\* EFT2Parser.parse, one iteration of the loop
LineB ==
    /\ pc = "items" /\ dialect = "B" /\ rest # <<>>
    /\ Continue(StepB(fit, state, Head(rest)))

\* return fit
ReturnFit ==
    /\ pc = "items" /\ rest = <<>>
    /\ pc' = "done"
    /\ UNCHANGED <<dialect, text, err, fit, state, rest, log, cl_line, cl_res>>

Next == BeginA \/ LineA \/ BeginB \/ LineB \/ ReturnFit

Spec == Init /\ [][Next]_vars

-----------------------------------------------------------------------------
(* The classifiers called on their own, on every line over a small         *)
(* alphabet.                                                               *)

Alphabet == {"A", " ", "x", ",", "5"}

LinesUpTo(n) == UNION {[1..k -> Alphabet] : k \in 0..n}

InitClassify ==
    /\ dialect = "-"
    /\ text = <<>>
    /\ pc = "unit"
    /\ err = NoError
    /\ fit = NoFit
    /\ state = NewParserState
    /\ rest = <<>>
    /\ log = <<>>
    /\ cl_line \in LinesUpTo(MaxLen)
    /\ cl_res = NoCall

Call(fn, out) ==
    /\ pc = "unit"
    /\ cl_res = NoCall
    /\ cl_res' = [fn |-> fn, out |-> out]
    /\ UNCHANGED <<dialect, text, pc, err, fit, state, rest, log, cl_line>>

CallParseModule == Call("_parse_module", ParseModule(cl_line))

CallParseDroneA == Call("EFTParser._parse_drone", ParseDroneA(cl_line))

CallParseCargoA == Call("EFTParser._parse_cargo", ParseCargoA(cl_line))

CallParseDroneB == Call("EFT2Parser._parse_drone", ParseDroneB(cl_line))

CallParseCargoB == Call("EFT2Parser._parse_cargo", ParseCargoB(cl_line))

NextClassify ==
    \/ CallParseModule
    \/ CallParseDroneA
    \/ CallParseCargoA
    \/ CallParseDroneB
    \/ CallParseCargoB

SpecClassify == InitClassify /\ [][NextClassify]_vars

-----------------------------------------------------------------------------
(* Properties.                                                             *)

\* t is s without the whitespace at its two ends
IsTrimOf(t, s) ==
    \E a \in 1..(Len(s) + 1), b \in 0..Len(s) :
        /\ t = SubSeq(s, a, b)
        /\ \A k \in 1..Len(s) : (k < a \/ k > b) => s[k] \in Whitespace
        /\ t # <<>> => (t[1] \notin Whitespace /\ t[Len(t)] \notin Whitespace)

\* the part of s before index i, and the part from index j on
Before(s, i) == SubSeq(s, 1, i - 1)

From(s, j) == SubSeq(s, j, Len(s))

\* s is digits, with nothing but whitespace around them
WritesNatural(s) ==
    \E a \in 1..Len(s), b \in 1..Len(s) :
        /\ a <= b
        /\ \A k \in a..b : s[k] \in Digits
        /\ IsTrimOf(SubSeq(s, a, b), s)

QuantityCalls ==
    {"EFTParser._parse_drone", "EFTParser._parse_cargo",
     "EFT2Parser._parse_drone", "EFT2Parser._parse_cargo"}

DelimOf(fn) ==
    IF fn \in {"EFTParser._parse_drone", "EFTParser._parse_cargo"}
    THEN DelimA ELSE DelimB

\* the indices at which the two characters of the delimiter stand in s
DelimAt(s, delim) ==
    {i \in 1..(Len(s) - 1) : s[i] = delim[1] /\ s[i + 1] = delim[2]}

\* C6: _parse_drone and _parse_cargo of either dialect.  Without the
\* dialect's delimiter the result is (trimmed line, 1).  With it the line is
\* split at the LAST occurrence: the name is the trimmed text before it and
\* the quantity is the integer the text after it writes (the call raises
\* ValueError when that text is no integer).
C6_QuantityClassifier ==
    cl_res.fn \in QuantityCalls =>
        LET at == DelimAt(cl_line, DelimOf(cl_res.fn))
            out == cl_res.out
        IN  IF at = {}
            THEN /\ ~out.raised
                 /\ IsTrimOf(out.value.name, cl_line)
                 /\ out.value.quantity = 1
            ELSE \E p \in at :
                    /\ \A q \in at : q <= p
                    /\ IF ~WritesNatural(From(cl_line, p + 2))
                       THEN out.raised /\ out.type = "ValueError"
                       ELSE /\ ~out.raised
                            /\ IsTrimOf(out.value.name, Before(cl_line, p))
                            /\ IsTrimOf(IntStr(out.value.quantity),
                                        From(cl_line, p + 2))

\* C6 witness: a line with two delimiters, split at the last one, so that
\* the name keeps the first
C6_Witness ==
    /\ cl_res.fn = "EFTParser._parse_drone"
    /\ Cardinality(DelimAt(cl_line, DelimA)) = 2
    /\ ~cl_res.out.raised
    /\ DelimAt(cl_res.out.value.name, DelimA) # {}
    /\ cl_res.out.value.quantity = 5

\* C7: _parse_module.  With a comma the line is split at the FIRST comma
\* into the trimmed name and the trimmed charge (which may be empty, and
\* keeps any later comma); without one the name is the trimmed line and the
\* charge is None, not an empty string.
C7_ModuleClassifier ==
    cl_res.fn = "_parse_module" =>
        LET at == {i \in 1..Len(cl_line) : cl_line[i] = ","}
            out == cl_res.out
        IN  /\ ~out.raised
            /\ IF at = {}
               THEN /\ IsTrimOf(out.value.name, cl_line)
                    /\ out.value.charge = PyNone
                    /\ out.value.charge # <<>>
               ELSE \E p \in at :
                       /\ \A q \in at : p <= q
                       /\ IsTrimOf(out.value.name, Before(cl_line, p))
                       /\ IsTrimOf(out.value.charge, From(cl_line, p + 1))
                       /\ out.value.charge # PyNone

\* C7 witness: a line with two commas, whose charge keeps the second
C7_Witness ==
    /\ cl_res.fn = "_parse_module"
    /\ Cardinality({i \in 1..Len(cl_line) : cl_line[i] = ","}) = 2
    /\ cl_res.out.value.name = <<"A">>
    /\ cl_res.out.value.charge = <<"A", ",", " ", "A">>

-----------------------------------------------------------------------------
(* Properties of the parses.                                               *)

\* the indices of the characters of the text's first line, once the
\* whitespace around the whole text is dropped
FirstInk(txt) == {i \in 1..Len(txt) : txt[i] \notin Whitespace}

\* the index after the last character of the header line: the first line
\* break after the first non-blank character, or the end of the text
HeaderEnd(txt) ==
    SetMin({j \in SetMin(FirstInk(txt))..Len(txt) : txt[j] = "\n"}
               \cup {Len(txt) + 1})

\* the first character of the stripped text is not the dialect's marker
LacksMarker(d, txt) ==
    \/ FirstInk(txt) = {}
    \/ txt[SetMin(FirstInk(txt))] # (IF d = "A" THEN "[" ELSE "#")

\* the header line holds no comma
LacksComma(txt) ==
    \/ FirstInk(txt) = {}
    \/ \A i \in SetMin(FirstInk(txt))..(HeaderEnd(txt) - 1) : txt[i] # ","

\* the category the table gives the name, when it has a row for it
HasCategory(name, code) ==
    \E r \in typeInfo : r.typeName = name /\ r.categoryID = code

\* C2: a malformed header is fatal.  When the stripped text does not start
\* with the dialect's marker, or its header line holds no comma, the parse
\* ends with ValueError ("Invalid EFT format" for a missing "[") before any
\* item line is processed, and returns no Fit.
C2_MalformedHeaderFatal ==
    (pc # "start" /\ dialect \in {"A", "B"}
     /\ (LacksMarker(dialect, text) \/ LacksComma(text)))
        => /\ pc = "error"
           /\ err.type = "ValueError"
           /\ fit = NoFit
           /\ log = <<>>
           /\ (dialect = "A" /\ LacksMarker("A", text))
                  => err.msg = "Invalid EFT format"

\* C2 witness: a format-A text with item lines whose header has the "[" and
\* no comma, after the parse ended
C2_Witness ==
    /\ dialect = "A"
    /\ pc = "error"
    /\ ~LacksMarker("A", text)
    /\ LacksComma(text)
    /\ Len(SplitLines(text)) > 1

\* C3: a lookup miss is never fatal: no format-A parse ends in the
\* TypeError that get_category_info raises when the table has no row for the
\* name (the hull's, or an item's in section 4).
C3_LookupMissNotFatal ==
    dialect = "A" => ~(pc = "error" /\ err.type = "TypeError")

\* the (name, charge) or (name, quantity) tuples of a sequence of records
Tuples(rs) == [i \in 1..Len(rs) |-> RecordToDict(rs[i])]

SameTuples(f, g) ==
    /\ \A field \in SeqFields \ {"subsystems", "service_slots"} :
           Tuples(f[field]) = Tuples(g[field])
    /\ IF f.is_structure
       THEN Tuples(f.service_slots) = Tuples(g.service_slots)
       ELSE Tuples(f.subsystems) = Tuples(g.subsystems)

RoundTripA(f) ==
    /\ ~ToEft(f).raised
    /\ ~ParseA(ToEft(f).value).raised
    /\ SameTuples(f, ParseA(ToEft(f).value).value)

\* C4: the Fit a format-A parse returns is rendered by to_eft to a text
\* that EFTParser.parse reads back to the same tuples, in the same order, in
\* every sequence.
C4_RoundTripFormatA ==
    (dialect = "A" /\ pc = "done") => RoundTripA(fit)

\* C5: for the Fit either parser returns, fit_from_json(to_json()) and
\* fit_from_yaml(to_yaml()) complete and keep ship and name.
C5_StructuredRoundTrip ==
    pc = "done" =>
        /\ ~FitFromJson(ToJson(fit)).raised
        /\ FitFromJson(ToJson(fit)).value.ship = fit.ship
        /\ FitFromJson(ToJson(fit)).value.name = fit.name
        /\ ~FitFromYaml(ToYaml(fit)).raised
        /\ FitFromYaml(ToYaml(fit)).value.ship = fit.ship
        /\ FitFromYaml(ToYaml(fit)).value.name = fit.name

\* a line "name xN" with no further delimiter: its name and its count
IsQuantityLine(line, name, n) == line = name \o DelimA \o IntStr(n)

\* the text's item lines are laid out as low, three empty lines, high, one
\* empty line, rigs, three empty lines and one last line
IsLaidOut(lines, L, H, R) ==
    /\ Len(lines) = L + 3 + H + 1 + R + 3 + 1
    /\ \A i \in 1..Len(lines) :
           (lines[i] = <<>>) <=>
               \/ (L < i /\ i <= L + 3)
               \/ i = L + 3 + H + 1
               \/ (L + 3 + H + 1 + R < i /\ i <= L + 3 + H + 1 + R + 3)

\* C1: the layout of the spec's example on a non-structure hull.  L low-slot
\* lines, three empty lines, H module lines, one empty line, R rig lines,
\* three empty lines and one line "X xN" with X a drone give ship and name
\* of the header, L low slots, no mid slot, H high slots, R rigs and
\* drones = [(X, N)].
C1_VentureLayout ==
    (dialect = "A" /\ pc \in {"done", "error"}) =>
        LET lines == ItemLines(text)
            last  == lines[Len(lines)]
            comma == SetMin({i \in 1..Len(text) : text[i] = ","})
        IN  (/\ ~LacksMarker("A", text) /\ ~LacksComma(text)
             /\ Len(lines) > 8
             /\ \E n \in 0..99 : IsQuantityLine(last, <<"D">>, n)
             /\ \E L, H, R \in 1..(MaxRun + 1) : IsLaidOut(lines, L, H, R)
             /\ IsTrimOf(<<"V">>,
                         SubSeq(text, SetMin(FirstInk(text)) + 1, comma - 1)))
                => /\ pc = "done"
                   /\ fit.ship = <<"V">>
                   /\ IsTrimOf(fit.name,
                               SubSeq(text, comma + 1, HeaderEnd(text) - 2))
                   /\ ~fit.is_structure
                   /\ IsLaidOut(lines, Len(fit.low_slots),
                                Len(fit.high_slots), Len(fit.rigs))
                   /\ Len(fit.mid_slots) = 0
                   /\ Len(fit.drones) = 1
                   /\ fit.drones[1].name = <<"D">>
                   /\ IsQuantityLine(last, <<"D">>, fit.drones[1].quantity)

\* C1 witness: the Venture example's shape (2 low, 2 high, 2 rigs, one drone
\* line of quantity 5) parsed to the end
C1_Witness ==
    /\ dialect = "A" /\ pc = "done"
    /\ fit.ship = <<"V">> /\ ~fit.is_structure
    /\ IsLaidOut(ItemLines(text), 2, 2, 2)
    /\ Len(fit.low_slots) = 2 /\ Len(fit.mid_slots) = 0
    /\ Len(fit.high_slots) = 2 /\ Len(fit.rigs) = 2
    /\ Len(fit.drones) = 1 /\ fit.drones[1].quantity = 5

\* a line "Y xM" with M a decimal count, and its name and count
IsCountLine(line) ==
    \E k \in 0..Len(line), n \in 0..99 :
        IsQuantityLine(line, SubSeq(line, 1, k), n)

IsCountOf(line, rec) ==
    /\ "quantity" \in DOMAIN rec
    /\ rec.quantity \in Nat
    /\ IsQuantityLine(line, rec.name, rec.quantity)

\* the log ends with a drone's line "X xN" consumed in section 4 at index j,
\* one empty line, and then lines "Y xM" only
DroneThenBlank(lg, j) ==
    /\ j + 1 <= Len(lg)
    /\ lg[j].section = 4
    /\ \E n \in 0..99, r \in typeInfo :
           /\ r.categoryID = DroneCode
           /\ IsQuantityLine(lg[j].line, r.typeName, n)
    /\ lg[j + 1].line = <<>>
    /\ \A k \in (j + 2)..Len(lg) : IsCountLine(lg[k].line)

\* C8: cargo after a drone in format A.  Once a drone's line "X xN" was
\* consumed in section 4 and one empty line followed it, the step on each
\* following line "Y xM" appends (Y, M) to cargo and leaves drones alone,
\* whose last element is (X, N); drones is [(X, N)] when X was the first
\* item of section 4.
C8_CargoAfterDrone ==
    [][\A j \in 1..Len(log) :
          (/\ dialect = "A" /\ pc = "items" /\ rest # <<>>
           /\ DroneThenBlank(log, j)
           /\ IsCountLine(Strip(Head(rest))))
              => /\ pc' = "items"
                 /\ Len(fit'.cargo) = Len(fit.cargo) + 1
                 /\ SubSeq(fit'.cargo, 1, Len(fit.cargo)) = fit.cargo
                 /\ IsCountOf(Strip(Head(rest)), fit'.cargo[Len(fit'.cargo)])
                 /\ fit'.drones = fit.drones
                 /\ fit.drones # <<>>
                 /\ IsCountOf(log[j].line, fit.drones[Len(fit.drones)])
                 /\ (j = 1 \/ log[j - 1].section # 4) => Len(fit.drones) = 1
      ]_vars

\* C8 witness: test_parse_cargo's shape parsed to the end: the drone's line
\* in section 4, one empty line, two cargo lines, both in cargo in input
\* order and drones of one element
C8_Witness ==
    /\ dialect = "A" /\ pc = "done"
    /\ Len(log) >= 4
    /\ DroneThenBlank(log, Len(log) - 3)
    /\ Len(fit.drones) = 1
    /\ Len(fit.cargo) = 2
    /\ IsCountOf(log[Len(log) - 1].line, fit.cargo[1])
    /\ IsCountOf(log[Len(log)].line, fit.cargo[2])
    /\ fit.cargo[1] # fit.cargo[2]

\* the item lines consumed so far in section 4, in input order
IsAmbiguousEntry(e) == e.section = 4 /\ e.line # <<>>

AmbiguousLines(lg) == SelectSeq(lg, IsAmbiguousEntry)

\* rec is the record of the item line: its name starts the line, and the
\* line ends there or goes on with the delimiter of a charge or a quantity
IsRecordOf(line, rec) ==
    /\ Len(rec.name) <= Len(line)
    /\ rec.name = SubSeq(line, 1, Len(rec.name))
    /\ \/ Len(rec.name) = Len(line)
       \/ line[Len(rec.name) + 1] = ","
       \/ SubSeq(line, Len(rec.name) + 1, Len(rec.name) + 2) = DelimA

\* C9: structure flag propagation in format A.  In every state of a parse
\* past the header, when typeInfo gives the hull the structure code,
\* service_slots holds one entry for every item line consumed so far in
\* section 4, in input order, whatever its category; otherwise service_slots
\* is empty.
C9_StructureFlag ==
    (dialect = "A" /\ fit # NoFit) =>
        /\ fit.is_structure <=> HasCategory(fit.ship, StructureCode)
        /\ IF HasCategory(fit.ship, StructureCode)
           THEN /\ Len(fit.service_slots) = Len(AmbiguousLines(log))
                /\ \A i \in 1..Len(fit.service_slots) :
                       IsRecordOf(AmbiguousLines(log)[i].line,
                                  fit.service_slots[i])
           ELSE fit.service_slots = <<>>

\* C9 witness: a structure with two lines of section 4 of different
\* categories, a drone and a module, both in service_slots
C9_Witness ==
    /\ dialect = "A" /\ pc = "done"
    /\ HasCategory(fit.ship, StructureCode)
    /\ Len(fit.service_slots) >= 2
    /\ \E i, j \in 1..Len(fit.service_slots) :
           /\ HasCategory(fit.service_slots[i].name, DroneCode)
           /\ ~HasCategory(fit.service_slots[j].name, DroneCode)
           /\ ~HasCategory(fit.service_slots[j].name, SubsystemCode)

\* C10: the quantity invariant.  In the Fit either parser returns, every
\* element of drones, fighters and cargo carries an integer quantity of at
\* least 1.
C10_QuantityAtLeastOne ==
    pc = "done" =>
        \A field \in {"drones", "fighters", "cargo"} :
            \A i \in 1..Len(fit[field]) :
                /\ "quantity" \in DOMAIN fit[field][i]
                /\ fit[field][i].quantity \in Int
                /\ fit[field][i].quantity >= 1

\* s writes an integer as int() reads it: digits, after an optional sign,
\* with nothing but whitespace around
WritesInteger(s) ==
    \/ WritesNatural(s)
    \/ \E a \in 1..Len(s) :
           /\ s[a] \in {"+", "-"}
           /\ \A k \in 1..(a - 1) : s[k] \in Whitespace
           /\ a < Len(s) /\ s[a + 1] \in Digits
           /\ WritesNatural(From(s, a + 1))

\* the line has the delimiter, and what follows its last occurrence is no
\* integer
BadCount(line, delim) ==
    /\ DelimAt(line, delim) # {}
    /\ ~WritesInteger(From(line, SetMax(DelimAt(line, delim)) + 2))

HeadingMark == <<"#", "#", " ">>

\* the entry is an item line consumed as a drone, a fighter or cargo: in
\* sections 5 to 7 or, with " x", in section 4 (format A); under the heading
\* Drones or Cargo (format B)
IsQuantityEntry(d, e) ==
    /\ e.line # <<>>
    /\ IF d = "A"
       THEN \/ e.section \in 5..7
            \/ e.section = 4 /\ DelimAt(e.line, DelimA) # {}
       ELSE /\ e.heading \in {<<"D", "r", "o", "n", "e", "s">>,
                              <<"C", "a", "r", "g", "o">>}
            /\ ~(Len(e.line) >= 3 /\ SubSeq(e.line, 1, 3) = HeadingMark)

\* C11: a malformed quantity is fatal.  No line consumed as a drone, a
\* fighter or cargo has a delimiter followed by a token that is no integer;
\* a Fit is returned only once every line was consumed; and a ValueError
\* past the header is raised at such a line, with every later line left
\* unprocessed.
C11_MalformedQuantityFatal ==
    (dialect \in {"A", "B"} /\ fit # NoFit) =>
        /\ \A i \in 1..Len(log) :
               IsQuantityEntry(dialect, log[i]) =>
                   ~BadCount(log[i].line, IF dialect = "A" THEN DelimA ELSE DelimB)
        /\ pc = "done" => Len(log) = Len(ItemLines(text)) /\ rest = <<>>
        /\ (pc = "error" /\ err.type = "ValueError") =>
               /\ rest = SubSeq(ItemLines(text), Len(log) + 1,
                                Len(ItemLines(text)))
               /\ rest # <<>>
               /\ BadCount(Strip(Head(rest)),
                           IF dialect = "A" THEN DelimA ELSE DelimB)

\* C11 witness: a format-A parse ended by ValueError at a line of section 5
\* or later, after items were appended and with a line left unprocessed
C11_Witness ==
    /\ dialect = "A" /\ pc = "error" /\ err.type = "ValueError"
    /\ fit # NoFit
    /\ fit.cargo # <<>>
    /\ log # <<>> /\ log[Len(log)].section >= 5
    /\ Len(rest) >= 2
    /\ BadCount(Strip(Head(rest)), DelimA)

\* C12: is_structure is fixed before item processing.  The header step of
\* EFTParser.parse sets the flag from the lookup on the hull name with no
\* item line consumed yet, and no later step changes it.
C12_FlagFixedAtHeader ==
    [][dialect = "A" =>
          /\ (pc = "start" /\ pc' = "items") =>
                 /\ log' = <<>>
                 /\ rest' = ItemLines(text)
                 /\ fit'.is_structure <=> HasCategory(fit'.ship, StructureCode)
          /\ (fit # NoFit /\ fit' # NoFit) =>
                 fit'.is_structure = fit.is_structure
      ]_vars

\* C12 witness: a structure's Fit returned with the flag set, after item
\* lines of the slot sections and of section 4 were consumed
C12_Witness ==
    /\ dialect = "A" /\ pc = "done"
    /\ fit.is_structure
    /\ fit.low_slots # <<>> /\ fit.rigs # <<>>
    /\ \E i \in 1..Len(log) : IsAmbiguousEntry(log[i])
    /\ fit.service_slots # <<>>
    /\ ~HasCategory(fit.service_slots[1].name, StructureCode)

\* C13: both parsers resolve the structure flag.  The returned Fit of
\* EFTParser.parse and of EFT2Parser.parse has is_structure exactly when
\* typeInfo gives the header's ship name the structure code.
C13_BothResolveFlag ==
    pc = "done" =>
        (fit.is_structure <=> HasCategory(fit.ship, StructureCode))

\* C14: subsystems and service_slots are exclusive.  In every state of a
\* parse past the header, subsystems is empty when is_structure is true and
\* service_slots is empty when it is false.
C14_SubsystemServiceExclusive ==
    fit # NoFit =>
        /\ fit.is_structure => fit.subsystems = <<>>
        /\ ~fit.is_structure => fit.service_slots = <<>>

\* a is the start of b
IsPrefix(a, b) == Len(a) <= Len(b) /\ a = SubSeq(b, 1, Len(a))

\* the headings EFT2Parser.parse appends under
KnownHeadings ==
    {<<"L", "o", "w", " ", "S", "l", "o", "t", "s">>,
     <<"M", "i", "d", " ", "S", "l", "o", "t", "s">>,
     <<"H", "i", "g", "h", " ", "S", "l", "o", "t", "s">>,
     <<"R", "i", "g", "s">>,
     <<"S", "u", "b", "s", "y", "s", "t", "e", "m", "s">>,
     <<"D", "r", "o", "n", "e", "s">>,
     <<"C", "a", "r", "g", "o">>}

\* the entry is an item line the parser has a sequence for
IsRoutedEntry(d, e) ==
    /\ e.line # <<>>
    /\ IF d = "A" THEN e.section \in 0..7
       ELSE /\ e.heading \in KnownHeadings
            /\ ~(Len(e.line) >= 3 /\ SubSeq(e.line, 1, 3) = HeadingMark)

\* C15: the sequences are append-only and keep the input order.  Across
\* every step of a parse of either format each sequence of the Fit before
\* the step is a prefix of the one after it; and every item line that is
\* routed makes some sequence longer, so a line that repeats a name adds its
\* own entry.
C15_AppendOnly ==
    [][(fit # NoFit /\ fit' # NoFit) =>
          /\ \A field \in SeqFields : IsPrefix(fit[field], fit'[field])
          /\ (Len(log') = Len(log) + 1
              /\ IsRoutedEntry(dialect, log'[Len(log')])) =>
                 \E field \in SeqFields : Len(fit'[field]) > Len(fit[field])
      ]_vars

\* C15 witness: a returned Fit with a sequence that holds two different
\* records in input order, and one that holds the same record twice
C15_Witness ==
    /\ pc = "done" /\ dialect = "A"
    /\ Len(fit.low_slots) >= 2
    /\ fit.low_slots[1].name = <<"M">> /\ fit.low_slots[1].charge = <<"c">>
    /\ fit.low_slots[2].charge = PyNone
    /\ Len(fit.rigs) >= 2 /\ fit.rigs[1] = fit.rigs[2]

\* C16: the section machine moves forward only.  The section of
\* ParserState never decreases from one consumed line to the next: every
\* logged line's section is at least that of the line before it, and the
\* current section is at least that of the last line.
C16_ForwardOnly ==
    dialect = "A" =>
        /\ \A k \in 2..Len(log) : log[k].section >= log[k - 1].section
        /\ log # <<>> => state.section >= log[Len(log)].section
        /\ state.section >= 0

\* C16 witness: a parse whose lines went through the sections up to the
\* eighth, with a keyword line after one empty line of section 4 that was
\* moved to section 5 and jumped to 6
C16_Witness ==
    /\ dialect = "A" /\ pc = "done"
    /\ state.section >= 8
    /\ \E k \in 2..Len(log) :
           /\ log[k].section = 6 /\ log[k - 1].section = 4
           /\ log[k - 1].line = <<>> /\ log[k].line # <<>>

\* the entries i and j of the log are item lines with only empty lines, and
\* at least one, between them
BlankRunBetween(lg, i, j) ==
    /\ i + 1 < j
    /\ lg[i].line # <<>> /\ lg[j].line # <<>>
    /\ \A k \in (i + 1)..(j - 1) : lg[k].line = <<>>

\* C17: a single empty line is tolerated in the slot sections.  An item
\* line that follows exactly one empty line after an item line of a section
\* below 3 is classified in that same section.
C17_SingleBlankTolerated ==
    dialect = "A" =>
        \A k \in 3..Len(log) :
            (BlankRunBetween(log, k - 2, k) /\ log[k - 2].section < 3)
                => log[k].section = log[k - 2].section

\* C18: one transition per blank region.  When the counting rule already
\* moved the section during a run of empty lines, the item line after the
\* run is classified in the section the run ended in (but for a keyword
\* line's jump to 6); otherwise it is classified in a later section than
\* the item line before the run.
C18_OneTransitionPerRegion ==
    dialect = "A" =>
        \A i, j \in 1..Len(log) :
            BlankRunBetween(log, i, j) =>
                IF log[j - 1].section > log[i].section
                THEN \/ log[j].section = log[j - 1].section
                     \/ /\ log[j].section = 6
                        /\ LooksLikeCargo(log[j].line, DroneKeywords)
                ELSE log[j].section > log[i].section

\* C19: the threshold of section 4.  An item line that follows one or two
\* empty lines after an item line of section 4 is still classified in
\* section 4.
C19_FourthSectionThreshold ==
    dialect = "A" =>
        \A i, j \in 1..Len(log) :
            (BlankRunBetween(log, i, j) /\ log[i].section = 4 /\ j - i <= 3)
                => log[j].section = 4

\* C20: a single advance in sections 3, 5, 6 and 7.  In these sections an
\* empty line leaves the section as it is, and the item line after a run of
\* any number of empty lines is classified exactly one section further.
C20_SingleAdvance ==
    dialect = "A" =>
        \A k \in 2..Len(log) :
            log[k - 1].section \in {3, 5, 6, 7} =>
                IF log[k].line = <<>>
                THEN log[k].section = log[k - 1].section
                ELSE log[k - 1].line = <<>> =>
                         log[k].section = log[k - 1].section + 1

\* C20 witness: a parse with a run of empty lines after an item line of each
\* of the sections 3, 5, 6 and 7, one of them of three empty lines, each
\* followed by an item line
C20_Witness ==
    /\ dialect = "A" /\ pc = "done"
    /\ \A s \in {3, 5, 6, 7} :
           \E i, j \in 1..Len(log) :
               /\ BlankRunBetween(log, i, j)
               /\ log[i].section = s /\ log[j].section = s + 1
    /\ \E i \in 1..Len(log) :
           /\ i + 4 <= Len(log)
           /\ BlankRunBetween(log, i, i + 4)
           /\ log[i].section = 5 /\ log[i + 4].section = 6

\* w stands somewhere in line
HasSub(line, w) ==
    \E i \in 1..(Len(line) - Len(w) + 1) : SubSeq(line, i, i + Len(w) - 1) = w

\* the section a non-empty line is met in: the current one, or the next
\* when empty lines came before it
PendingSection(st) ==
    IF st.in_blank_block THEN st.section + 1 ELSE st.section

\* the line is one the claim moves to cargo from the section it is met in
Escapes(section, line) ==
    /\ HasSub(line, DelimA)
    /\ \/ /\ section = 1
          /\ \E w \in {Missile, Torpedo, Bomb, Charge, Ammo} : HasSub(line, w)
       \/ /\ section = 5
          /\ \E w \in {Missile, Torpedo, Bomb, Charge, Ammo, Fuel, Script} :
                 HasSub(line, w)

\* the step consumed a non-empty line of a format-A parse
ConsumesItemA ==
    /\ dialect = "A" /\ pc = "items"
    /\ Len(log') = Len(log) + 1
    /\ log'[Len(log')].line # <<>>

\* C21: the heuristic cargo escape.  A non-empty line is moved to section 6
\* and appended to cargo, and to nothing else, exactly when it is met in
\* section 1 with " x" and a word of the short list, or in section 5 with
\* " x" and a word of the long list; every other line stays in the section
\* it is met in.
C21_CargoEscape ==
    [][ConsumesItemA =>
          IF Escapes(PendingSection(state), log'[Len(log')].line)
          THEN /\ state'.section = 6
               /\ Len(fit'.cargo) = Len(fit.cargo) + 1
               /\ IsRecordOf(log'[Len(log')].line, fit'.cargo[Len(fit'.cargo)])
               /\ \A field \in SeqFields \ {"cargo"} : fit'[field] = fit[field]
          ELSE state'.section = PendingSection(state)
      ]_vars

\* C21 witness: an ammunition line met in section 1 after one empty line,
\* moved to section 6 and read as cargo
C21_Witness ==
    /\ dialect = "A" /\ pc = "done"
    /\ Len(log) >= 2
    /\ log[1].line = <<>> /\ log[1].section = 0
    /\ log[2].line = LineAmmo /\ log[2].section = 6
    /\ fit.cargo # <<>>
    /\ fit.cargo[1].name = Ammo /\ fit.cargo[1].quantity = 2
    /\ fit.mid_slots = <<>>

\* the sequences section 4 routes by category
Routable == {"subsystems", "drones", "cargo"}

\* the sequence the claim names for the name's category
RoutedTo(name) ==
    IF HasCategory(name, SubsystemCode) THEN "subsystems"
    ELSE IF HasCategory(name, DroneCode) THEN "drones"
    ELSE "cargo"

\* C22: the routing of section 4 by category.  Each item line consumed in
\* section 4 appends its record to subsystems when typeInfo gives its name
\* the subsystem code, to drones for the drone code, to cargo for any other
\* code, and leaves the other two of these sequences as they were.
C22_AmbiguousRouting ==
    [][(ConsumesItemA /\ state'.section = 4) =>
          \E field \in Routable :
              /\ Len(fit'[field]) > Len(fit[field])
              /\ IsRecordOf(log'[Len(log')].line, fit'[field][Len(fit'[field])])
              /\ field = RoutedTo(fit'[field][Len(fit'[field])].name)
              /\ \A other \in Routable \ {field} : fit'[other] = fit[other]
      ]_vars

\* C22 witness: two item lines consumed in section 4, a subsystem and a
\* drone, each in its sequence and cargo left empty
C22_Witness ==
    /\ dialect = "A" /\ pc = "done"
    /\ Len(AmbiguousLines(log)) = 2
    /\ Len(fit.subsystems) = 1 /\ HasCategory(fit.subsystems[1].name, SubsystemCode)
    /\ Len(fit.drones) = 1 /\ HasCategory(fit.drones[1].name, DroneCode)
    /\ fit.cargo = <<>>

\* C23: records of section 5 go to drones.  Each item line consumed in
\* section 5 of a format-A parse appends one record to drones, whether or
\* not drones already holds one, and leaves cargo as it was.
C23_DronesSectionToDrones ==
    [][(ConsumesItemA /\ state'.section = 5) =>
          /\ Len(fit'.drones) = Len(fit.drones) + 1
          /\ IsRecordOf(log'[Len(log')].line, fit'.drones[Len(fit'.drones)])
          /\ fit'.cargo = fit.cargo
      ]_vars

\* C23 (amended): records of section 5 go to drones until drones holds a
\* record, and to cargo from then on.  Each item line consumed in section 5
\* of a format-A parse appends one drone record to drones and leaves cargo
\* as it was when drones is empty before the line; it appends one cargo
\* record to cargo and leaves drones as it was when drones is non-empty.
C23_DronesSectionByDrones ==
    [][(ConsumesItemA /\ state'.section = 5) =>
          IF fit.drones = <<>>
          THEN /\ Len(fit'.drones) = 1
               /\ fit'.drones[1].kind = "Drone"
               /\ IsRecordOf(log'[Len(log')].line, fit'.drones[1])
               /\ fit'.cargo = fit.cargo
          ELSE /\ Len(fit'.cargo) = Len(fit.cargo) + 1
               /\ fit'.cargo[Len(fit'.cargo)].kind = "Cargo"
               /\ IsRecordOf(log'[Len(log')].line,
                             fit'.cargo[Len(fit'.cargo)])
               /\ fit'.drones = fit.drones
      ]_vars

\* the entry is an item line consumed in section 5
IsDronesEntry(e) == e.section = 5 /\ e.line # <<>>

\* C23 witness: two item lines consumed in section 5 and none with a
\* quantity in section 4: the first is the one drone, the second is the
\* last cargo record
C23_Witness ==
    /\ dialect = "A" /\ pc = "done"
    /\ Len(SelectSeq(log, IsDronesEntry)) = 2
    /\ \A k \in 1..Len(log) :
           IsAmbiguousEntry(log[k]) => ~Contains(log[k].line, DelimA)
    /\ Len(fit.drones) = 1
    /\ IsRecordOf(SelectSeq(log, IsDronesEntry)[1].line, fit.drones[1])
    /\ fit.cargo # <<>>
    /\ fit.cargo[Len(fit.cargo)].kind = "Cargo"
    /\ IsRecordOf(SelectSeq(log, IsDronesEntry)[2].line,
                  fit.cargo[Len(fit.cargo)])

\* C24: format B, lines before the first heading.  A parse of a format-B
\* text whose header was accepted is never ended by an exception while no
\* heading line has been read, and the sequences are empty until then.
C24_BeforeFirstHeading ==
    (dialect = "B" /\ fit # NoFit /\ state.heading = NoAttr) =>
        /\ pc # "error"
        /\ \A field \in SeqFields : fit[field] = <<>>

\* the headings of the claim, each with the sequence it names
HeadingFields ==
    [h \in KnownHeadings \cup {StripChars(HeadingService, {"#", " "})} |->
        CASE h = StripChars(HeadingLow, {"#", " "}) -> "low_slots"
          [] h = <<"M", "i", "d", " ", "S", "l", "o", "t", "s">> -> "mid_slots"
          [] h = <<"H", "i", "g", "h", " ", "S", "l", "o", "t", "s">> ->
                 "high_slots"
          [] h = <<"R", "i", "g", "s">> -> "rigs"
          [] h = StripChars(HeadingSubsystems, {"#", " "}) -> "subsystems"
          [] h = StripChars(HeadingService, {"#", " "}) -> "service_slots"
          [] h = StripChars(HeadingDrones, {"#", " "}) -> "drones"
          [] OTHER -> "cargo"]

\* the step consumed a line of a format-B text that is neither empty nor a
\* heading line
ConsumesItemB ==
    /\ dialect = "B" /\ pc = "items"
    /\ Len(log') = Len(log) + 1
    /\ log'[Len(log')].line # <<>>
    /\ ~IsPrefix(HeadingMark, log'[Len(log')].line)

\* C25: heading attribution in format B.  Each line that is neither empty
\* nor a heading line, consumed under one of the eight headings, appends
\* exactly one record to the sequence the heading names (service_slots for
\* Service Slots) and to no other.
C25_HeadingAttribution ==
    [][(ConsumesItemB /\ state'.heading \in DOMAIN HeadingFields) =>
          /\ Len(fit'[HeadingFields[state'.heading]]) =
                 Len(fit[HeadingFields[state'.heading]]) + 1
          /\ \A other \in SeqFields \ {HeadingFields[state'.heading]} :
                 fit'[other] = fit[other]
      ]_vars

\* C26: the section index of a format-A parse stays within the eight
\* sections, and every item line consumed lengthens some sequence.
C26_SectionInRange ==
    [][(dialect = "A" /\ pc = "items" /\ Len(log') = Len(log) + 1) =>
          /\ state'.section \in 0..7
          /\ log'[Len(log')].line # <<>> =>
                 \E field \in SeqFields : Len(fit'[field]) > Len(fit[field])
      ]_vars

\* C27: no line is recorded twice in one sequence.  Each item line consumed
\* by a format-A parse lengthens each sequence by at most one record.
C27_AtMostOncePerSequence ==
    [][ConsumesItemA =>
          \A field \in SeqFields : Len(fit'[field]) <= Len(fit[field]) + 1
      ]_vars

\* the sequences to_eft2 writes a heading for
Eft2Fields(f) ==
    {"low_slots", "mid_slots", "high_slots", "rigs", "drones", "cargo"}
        \cup {IF f.is_structure THEN "service_slots" ELSE "subsystems"}

\* to_eft2 renders f and EFT2Parser.parse reads the text back to the same
\* ship, the same name and the same tuples in every sequence rendered
RoundTripB(f) ==
    /\ ~ToEft2(f).raised
    /\ ~ParseB(ToEft2(f).value).raised
    /\ ParseB(ToEft2(f).value).value.ship = f.ship
    /\ ParseB(ToEft2(f).value).value.name = f.name
    /\ \A field \in Eft2Fields(f) :
           Tuples(ParseB(ToEft2(f).value).value[field]) = Tuples(f[field])

\* C28: the format-B round trip.  The Fit a format-B parse returns, with no
\* whitespace around its ship and its name, is rendered by to_eft2 to a text
\* that EFT2Parser.parse reads back to the same ship, name and tuples.
C28_RoundTripFormatB ==
    (dialect = "B" /\ pc = "done"
        /\ Strip(fit.ship) = fit.ship /\ Strip(fit.name) = fit.name)
    => RoundTripB(fit)

\* the fields the claim names are those of f
RestoresFlags(f, out) ==
    out.raised \/ (/\ Tuples(out.value.service_slots) = Tuples(f.service_slots)
                   /\ Tuples(out.value.fighters) = Tuples(f.fighters)
                   /\ out.value.is_structure = f.is_structure)

\* C29: the structured form restores every key to_dict writes.  For the Fit
\* either parser returns, the Fit that fit_from_json(to_json()) or
\* fit_from_yaml(to_yaml()) returns has the same service_slots, fighters and
\* is_structure.
C29_StructuredRestoresAll ==
    pc = "done" =>
        /\ RestoresFlags(fit, FitFromJson(ToJson(fit)))
        /\ RestoresFlags(fit, FitFromYaml(ToYaml(fit)))

====
